---- MODULE Spec2Model ----
(***************************************************************************)
(* Model of the stock reward backend: RewardService.ProcessReward and the  *)
(* PostgreSQL tables it reads and writes (reward_requests, rewards,        *)
(* ledger_entries, stock_prices, users).                                   *)
(*                                                                         *)
(* Numbers.  The Go code computes in float64 and the tables store          *)
(* DECIMAL(15,2).  The model uses exact fixed point:                       *)
(*   quantity  in tenths of a share        (105   = 10.5)                  *)
(*   price     in hundredths of a rupee    (17550 = 175.50)                *)
(*   money     in thousandths of a rupee   (1842750 = 1842.750)            *)
(* so quantity * price is already a money value, and a money value is a    *)
(* whole number of paise exactly when it is a multiple of 10.              *)
(*                                                                         *)
(* Go pointers and SQL NULLs are sequences: << >> is nil / NULL and <<x>>  *)
(* is a set value.                                                         *)
(***************************************************************************)
EXTENDS Integers, Sequences, FiniteSets, TLC

VARIABLES
    reward_requests,   \* table reward_requests: sequence of rows
    rewards,           \* table rewards: sequence of rows
    ledger_entries,    \* table ledger_entries: sequence of rows
    stock_prices,      \* table stock_prices: sequence of rows, oldest first
    reward_requests_id_seq, \* SERIAL sequence of reward_requests.id
    rewards_id_seq,    \* SERIAL sequence of rewards.id
    now,               \* the wall clock: the number of time.Now() readings so far
    faults,            \* storage calls that have failed so far
    pc,                \* pc[p]: position of invocation p in ProcessReward
    req,               \* req[p]: the *RewardRequest of invocation p
    stockPrice,        \* stockPrice[p]: local stockPrice.Price
    createdReward,     \* createdReward[p]: local *models.Reward (<< >> = nil)
    ledgerErr,         \* ledgerErr[p]: the error logged at step 8
    markErr,           \* markErr[p]: the error logged at step 9
    result,            \* result[p]: what ProcessReward returned
    calc,              \* one event taken through steps 6 to 8 on its own
    tx                 \* one caller of db.WithTransaction and its transaction

vars == << reward_requests, rewards, ledger_entries, stock_prices,
           reward_requests_id_seq, rewards_id_seq, now, faults,
           pc, req, stockPrice, createdReward, ledgerErr, markErr, result,
           calc, tx >>

tables == << reward_requests, rewards, ledger_entries, stock_prices,
             reward_requests_id_seq, rewards_id_seq >>

locals == << stockPrice, createdReward, ledgerErr, markErr, calc, tx >>

(***************************************************************************)
(* Bounds                                                                  *)
(***************************************************************************)
NumProcs == 2        \* concurrent ProcessReward invocations
MaxFaults == 1       \* storage calls that may fail in one run
MaxPriceRows == 2    \* rows the price updater may bring stock_prices to
MaxCalcQty == 12     \* largest quantity (in tenths) of the events taken alone
MaxRepoCalls == 2    \* direct calls of each repository function in one run
MaxTxCalls == 3      \* calls of db.WithTransaction in one run
MaxTxWrites == 2     \* statements fn executes inside one transaction

Procs == 1..NumProcs

(***************************************************************************)
(* Program constants                                                       *)
(***************************************************************************)
\* brokeragePercent := 0.1 and feePercent := 0.05, in units of 0.01 percent
brokeragePercent == 10
feePercent == 5

\* users seeded by the schema migration
Users == {"USR001", "USR002", "USR003"}

\* stock_prices seeded by the schema migration (AAPL 175.50)
SeedPrices == << [stock_symbol |-> "AAPL", price |-> 17550] >>

\* a price generateMockPrice can produce (two decimals, within min..max)
GenPrices == {12345}

\* the symbol whose price the updater moves while calls are in flight; a
\* symbol without a row gets its first price inside GetLatestPrice
UpdatedSymbols == {"AAPL"}

(***************************************************************************)
(* Inputs: the requests a caller may submit                                *)
(***************************************************************************)
Request(u, s, q, e) ==
    [UserID |-> u, StockSymbol |-> s, Quantity |-> q, EventID |-> e,
     EventType |-> "", Notes |-> ""]

RequestSeq ==
    << Request("USR001", "AAPL", 105, "EVT-001"),
       Request("USR002", "NVDA", -50, "EVT-001"),
       Request("USR001", "NVDA", 3,   "EVT-002"),
       Request("USR404", "AAPL", 105, "EVT-001"),
       Request("USR001", "AAPL", 0,   "EVT-001"),
       Request("USR001", "AAPL", 105, ""),
       Request("", "AAPL", 105, "EVT-001"),
       Request("USR001", "", 105, "EVT-001") >>

Requests == { RequestSeq[i] : i \in DOMAIN RequestSeq }

\* Invocations are interchangeable, so they are numbered by the request they
\* carry: each multiset of concurrent requests is explored under one numbering
Rank(r) == CHOOSE i \in DOMAIN RequestSeq : RequestSeq[i] = r

Numbered(p, r) ==
    \A q \in Procs :
       pc[q] # "idle" => /\ q < p => Rank(req[q]) <= Rank(r)
                         /\ q > p => Rank(r) <= Rank(req[q])

NoRequest == Request("", "", 0, "")

\* the events taken through steps 6 to 8 on their own: every small quantity
\* of either sign, the quantities of the documented examples, and prices
\* from zero up
CalcQuantities == ((0 - MaxCalcQty)..MaxCalcQty \ {0}) \cup {105, 0 - 50}
CalcPrices == {0, 1, 5, 995, 10000, 12345, 17550}

(***************************************************************************)
(* Arithmetic                                                              *)
(***************************************************************************)
Abs(x) == IF x < 0 THEN 0 - x ELSE x

\* mutant: a value half way between two hundredths goes towards zero
roundToTwoDecimalsHalfDown(n, d) ==
    LET c == (2 * Abs(n) + 10 * d - 1) \div (20 * d)
    IN  IF n < 0 THEN 0 - 10 * c ELSE 10 * c

\* math.Round(value*100)/100 for the value n/d (money units): the nearest
\* multiple of 10 money units, ties away from zero
roundToTwoDecimals(n, d) ==
    LET c == (2 * Abs(n) + 10 * d) \div (20 * d)
    IN  IF n < 0 THEN 0 - 10 * c ELSE 10 * c

\* mutant: the fee is taken on the signed value
calculateBrokerageSigned(totalValue) ==
    roundToTwoDecimals(totalValue * brokeragePercent, 10000)

\* fee := math.Abs(totalValue) * (rs.brokeragePercent / 100.0)
calculateBrokerage(totalValue) ==
    roundToTwoDecimals(Abs(totalValue) * brokeragePercent, 10000)

\* fee := math.Abs(totalValue) * (rs.feePercent / 100.0)
calculateTransactionFee(totalValue) ==
    roundToTwoDecimals(Abs(totalValue) * feePercent, 10000)

\* a DECIMAL(15,2) column rounds what is stored in it (numeric rounding,
\* ties away from zero)
Decimal15_2(x) == roundToTwoDecimals(x, 1)

(***************************************************************************)
(* Tables                                                                  *)
(***************************************************************************)
Rows(t) == { t[i] : i \in DOMAIN t }

RECURSIVE SumAmounts(_)
SumAmounts(s) == IF s = << >> THEN 0 ELSE Head(s).amount + SumAmounts(Tail(s))

\* rows of reward_requests with event_id = e  (SELECT ... WHERE event_id = $1)
RequestRows(e) == SelectSeq(reward_requests, LAMBDA r : r.event_id = e)

\* rows of rewards with event_id = e
RewardRows(e) == SelectSeq(rewards, LAMBDA r : r.event_id = e)

\* rows of ledger_entries with reward_id = id
LedgerRows(id) == SelectSeq(ledger_entries, LAMBDA l : l.reward_id = id)

\* rows of stock_prices for a symbol, oldest first
PriceRows(s) == SelectSeq(stock_prices, LAMBDA r : r.stock_symbol = s)

\* mutant: the constraint holds only among COMPLETED rows
RewardRequestsEventIdTakenIfCompleted(e) ==
    SelectSeq(RequestRows(e), LAMBDA r : r.status = "COMPLETED") # << >>

\* reward_requests.event_id VARCHAR(100) UNIQUE NOT NULL: the insert of a
\* second row with the same event_id is rejected
RewardRequestsEventIdTaken(e) == RequestRows(e) # << >>

\* rewards.event_id VARCHAR(100) UNIQUE NOT NULL
RewardsEventIdTaken(e) == RewardRows(e) # << >>

\* SELECT EXISTS(SELECT 1 FROM users WHERE user_id = $1)
Exists(userID) == userID \in Users

\* validate_ledger_balance(p_reward_id): SUM of DEBIT amounts = SUM of CREDIT
\* amounts over the rows of the reward
validate_ledger_balance(id) ==
    SumAmounts(SelectSeq(LedgerRows(id), LAMBDA l : l.entry_type = "DEBIT"))
  = SumAmounts(SelectSeq(LedgerRows(id), LAMBDA l : l.entry_type = "CREDIT"))

(***************************************************************************)
(* RewardService: pure parts                                               *)
(***************************************************************************)
\* mutant: the quantity is not looked at
validateRequestNoQuantity(r) ==
    IF r.UserID = "" THEN "user_id is required"
    ELSE IF r.StockSymbol = "" THEN "stock_symbol is required"
    ELSE IF r.EventID = "" THEN "event_id is required"
    ELSE ""

\* validateRequest: "" when the request is valid, else the error
validateRequest(r) ==
    IF r.UserID = "" THEN "user_id is required"
    ELSE IF r.StockSymbol = "" THEN "stock_symbol is required"
    ELSE IF r.Quantity = 0 THEN "quantity cannot be zero"
    ELSE IF r.EventID = "" THEN "event_id is required"
    ELSE ""

\* mutant: the fees are subtracted whatever the sign of the quantity
BuildRewardFeesSubtracted(r, price, t) ==
    LET totalValueINR == r.Quantity * price
        brokerageFee == calculateBrokerage(totalValueINR)
        transactionFee == calculateTransactionFee(totalValueINR)
        netValueINR == totalValueINR - brokerageFee - transactionFee
    IN  [ID |-> 0,
         UserID |-> r.UserID,
         StockSymbol |-> r.StockSymbol,
         Quantity |-> r.Quantity,
         EventType |-> IF r.EventType = "" THEN "REWARD" ELSE r.EventType,
         EventID |-> r.EventID,
         EventTimestamp |-> t,
         StockPrice |-> price,
         TotalValueINR |-> totalValueINR,
         BrokerageFee |-> brokerageFee,
         TransactionFee |-> transactionFee,
         NetValueINR |-> netValueINR,
         Status |-> "COMPLETED",
         Notes |-> IF r.Notes = "" THEN << >> ELSE << r.Notes >>]

\* Step 6 and the models.Reward literal of step 7 (ID is set by Create)
BuildReward(r, price, t) ==
    LET totalValueINR == r.Quantity * price
        brokerageFee == calculateBrokerage(totalValueINR)
        transactionFee == calculateTransactionFee(totalValueINR)
        netValueINR == IF r.Quantity < 0
                       THEN totalValueINR + brokerageFee + transactionFee
                       ELSE totalValueINR - brokerageFee - transactionFee
    IN  [ID |-> 0,
         UserID |-> r.UserID,
         StockSymbol |-> r.StockSymbol,
         Quantity |-> r.Quantity,
         EventType |-> IF r.EventType = "" THEN "REWARD" ELSE r.EventType,
         EventID |-> r.EventID,
         EventTimestamp |-> t,
         StockPrice |-> price,
         TotalValueINR |-> totalValueINR,
         BrokerageFee |-> brokerageFee,
         TransactionFee |-> transactionFee,
         NetValueINR |-> netValueINR,
         Status |-> "COMPLETED",
         Notes |-> IF r.Notes = "" THEN << >> ELSE << r.Notes >>]

\* the row INSERT INTO rewards stores for a models.Reward
RewardRow(reward, id) ==
    [id |-> id,
     user_id |-> reward.UserID,
     stock_symbol |-> reward.StockSymbol,
     quantity |-> reward.Quantity,
     event_type |-> reward.EventType,
     event_id |-> reward.EventID,
     event_timestamp |-> reward.EventTimestamp,
     stock_price |-> reward.StockPrice,
     total_value_inr |-> Decimal15_2(reward.TotalValueINR),
     brokerage_fee |-> Decimal15_2(reward.BrokerageFee),
     transaction_fee |-> Decimal15_2(reward.TransactionFee),
     net_value_inr |-> Decimal15_2(reward.NetValueINR),
     status |-> reward.Status,
     notes |-> reward.Notes]

LedgerEntry(reward, entryType, accountType, amount) ==
    [RewardID |-> reward.ID, UserID |-> reward.UserID,
     EntryType |-> entryType, AccountType |-> accountType,
     Amount |-> amount, ReferenceID |-> reward.EventID]

\* mutant: a negative reward gets the fee entries of a positive one
createLedgerEntriesAdjustmentFees(reward) ==
    IF reward.Quantity > 0
    THEN << LedgerEntry(reward, "DEBIT", "STOCK_ASSET", reward.TotalValueINR),
            LedgerEntry(reward, "CREDIT", "REWARD_INCOME", reward.TotalValueINR) >>
         \o (IF reward.BrokerageFee > 0
             THEN << LedgerEntry(reward, "DEBIT", "BROKERAGE_EXPENSE", reward.BrokerageFee),
                     LedgerEntry(reward, "CREDIT", "CASH", reward.BrokerageFee) >>
             ELSE << >>)
         \o (IF reward.TransactionFee > 0
             THEN << LedgerEntry(reward, "DEBIT", "FEE_EXPENSE", reward.TransactionFee),
                     LedgerEntry(reward, "CREDIT", "CASH", reward.TransactionFee) >>
             ELSE << >>)
    ELSE << LedgerEntry(reward, "CREDIT", "STOCK_ASSET", Abs(reward.TotalValueINR)),
            LedgerEntry(reward, "DEBIT", "ADJUSTMENT_EXPENSE", Abs(reward.TotalValueINR)) >>
         \o (IF reward.BrokerageFee > 0
             THEN << LedgerEntry(reward, "DEBIT", "BROKERAGE_EXPENSE", reward.BrokerageFee),
                     LedgerEntry(reward, "CREDIT", "CASH", reward.BrokerageFee) >>
             ELSE << >>)

\* mutant: the entries of the transaction fee come before those of the
\* brokerage fee
createLedgerEntriesFeeFirst(reward) ==
    IF reward.Quantity > 0
    THEN << LedgerEntry(reward, "DEBIT", "STOCK_ASSET", reward.TotalValueINR),
            LedgerEntry(reward, "CREDIT", "REWARD_INCOME", reward.TotalValueINR) >>
         \o (IF reward.TransactionFee > 0
             THEN << LedgerEntry(reward, "DEBIT", "FEE_EXPENSE", reward.TransactionFee),
                     LedgerEntry(reward, "CREDIT", "CASH", reward.TransactionFee) >>
             ELSE << >>)
         \o (IF reward.BrokerageFee > 0
             THEN << LedgerEntry(reward, "DEBIT", "BROKERAGE_EXPENSE", reward.BrokerageFee),
                     LedgerEntry(reward, "CREDIT", "CASH", reward.BrokerageFee) >>
             ELSE << >>)
    ELSE << LedgerEntry(reward, "CREDIT", "STOCK_ASSET", Abs(reward.TotalValueINR)),
            LedgerEntry(reward, "DEBIT", "ADJUSTMENT_EXPENSE", Abs(reward.TotalValueINR)) >>

\* mutant: the CREDIT CASH entry of the brokerage fee is left out
createLedgerEntriesNoCash(reward) ==
    IF reward.Quantity > 0
    THEN << LedgerEntry(reward, "DEBIT", "STOCK_ASSET", reward.TotalValueINR),
            LedgerEntry(reward, "CREDIT", "REWARD_INCOME", reward.TotalValueINR) >>
         \o (IF reward.BrokerageFee > 0
             THEN << LedgerEntry(reward, "DEBIT", "BROKERAGE_EXPENSE", reward.BrokerageFee) >>
             ELSE << >>)
         \o (IF reward.TransactionFee > 0
             THEN << LedgerEntry(reward, "DEBIT", "FEE_EXPENSE", reward.TransactionFee),
                     LedgerEntry(reward, "CREDIT", "CASH", reward.TransactionFee) >>
             ELSE << >>)
    ELSE << LedgerEntry(reward, "CREDIT", "STOCK_ASSET", Abs(reward.TotalValueINR)),
            LedgerEntry(reward, "DEBIT", "ADJUSTMENT_EXPENSE", Abs(reward.TotalValueINR)) >>

\* createLedgerEntries: the entries slice handed to ledgerRepo.BulkCreate
createLedgerEntries(reward) ==
    IF reward.Quantity > 0
    THEN << LedgerEntry(reward, "DEBIT", "STOCK_ASSET", reward.TotalValueINR),
            LedgerEntry(reward, "CREDIT", "REWARD_INCOME", reward.TotalValueINR) >>
         \o (IF reward.BrokerageFee > 0
             THEN << LedgerEntry(reward, "DEBIT", "BROKERAGE_EXPENSE", reward.BrokerageFee),
                     LedgerEntry(reward, "CREDIT", "CASH", reward.BrokerageFee) >>
             ELSE << >>)
         \o (IF reward.TransactionFee > 0
             THEN << LedgerEntry(reward, "DEBIT", "FEE_EXPENSE", reward.TransactionFee),
                     LedgerEntry(reward, "CREDIT", "CASH", reward.TransactionFee) >>
             ELSE << >>)
    ELSE << LedgerEntry(reward, "CREDIT", "STOCK_ASSET", Abs(reward.TotalValueINR)),
            LedgerEntry(reward, "DEBIT", "ADJUSTMENT_EXPENSE", Abs(reward.TotalValueINR)) >>

\* the row INSERT INTO ledger_entries stores for a models.LedgerEntry
LedgerRow(entry) ==
    [reward_id |-> entry.RewardID,
     user_id |-> entry.UserID,
     entry_type |-> entry.EntryType,
     account_type |-> entry.AccountType,
     amount |-> Decimal15_2(entry.Amount),
     reference_id |-> entry.ReferenceID]

RECURSIVE LedgerRowsOf(_)
LedgerRowsOf(entries) ==
    IF entries = << >> THEN << >>
    ELSE << LedgerRow(Head(entries)) >> \o LedgerRowsOf(Tail(entries))

\* ledger_entries: CHECK (amount >= 0), FOREIGN KEY (reward_id) REFERENCES
\* rewards(id)
LedgerRowAccepted(row) ==
    /\ row.amount >= 0
    /\ \E r \in Rows(rewards) : r.id = row.reward_id

\* mutant: every entry is queued twice
BulkCreateTwice(entries) ==
    ledger_entries \o LedgerRowsOf(entries) \o LedgerRowsOf(entries)

\* ledgerRepository.BulkCreate: the table after a batch that succeeds.  The
\* batch runs in one implicit transaction: all rows or none.
BulkCreate(entries) == ledger_entries \o LedgerRowsOf(entries)

\* the RewardResponse literal of step 9
BuildResponse(reward, t) ==
    [RewardID |-> reward.ID,
     UserID |-> reward.UserID,
     StockSymbol |-> reward.StockSymbol,
     Quantity |-> reward.Quantity,
     StockPrice |-> reward.StockPrice,
     TotalValueINR |-> reward.TotalValueINR,
     BrokerageFee |-> reward.BrokerageFee,
     TransactionFee |-> reward.TransactionFee,
     NetValueINR |-> reward.NetValueINR,
     EventID |-> reward.EventID,
     Status |-> "SUCCESS",
     Message |-> "Reward processed successfully",
     Timestamp |-> t]

\* json.Marshal(response): the JSON object, keyed by the struct's json tags
Marshal(response) ==
    [reward_id |-> response.RewardID,
     user_id |-> response.UserID,
     stock_symbol |-> response.StockSymbol,
     quantity |-> response.Quantity,
     stock_price |-> response.StockPrice,
     total_value_inr |-> response.TotalValueINR,
     brokerage_fee |-> response.BrokerageFee,
     transaction_fee |-> response.TransactionFee,
     net_value_inr |-> response.NetValueINR,
     event_id |-> response.EventID,
     status |-> response.Status,
     message |-> response.Message,
     timestamp |-> response.Timestamp]

\* mutant: the json tag of TotalValueINR does not match the payload's key
UnmarshalWrongTag(payload) ==
    [RewardID |-> payload.reward_id,
     UserID |-> payload.user_id,
     StockSymbol |-> payload.stock_symbol,
     Quantity |-> payload.quantity,
     StockPrice |-> payload.stock_price,
     TotalValueINR |-> 0,
     BrokerageFee |-> payload.brokerage_fee,
     TransactionFee |-> payload.transaction_fee,
     NetValueINR |-> payload.net_value_inr,
     EventID |-> payload.event_id,
     Status |-> payload.status,
     Message |-> payload.message,
     Timestamp |-> payload.timestamp]

\* json.Unmarshal(payload, &response)
Unmarshal(payload) ==
    [RewardID |-> payload.reward_id,
     UserID |-> payload.user_id,
     StockSymbol |-> payload.stock_symbol,
     Quantity |-> payload.quantity,
     StockPrice |-> payload.stock_price,
     TotalValueINR |-> payload.total_value_inr,
     BrokerageFee |-> payload.brokerage_fee,
     TransactionFee |-> payload.transaction_fee,
     NetValueINR |-> payload.net_value_inr,
     EventID |-> payload.event_id,
     Status |-> payload.status,
     Message |-> payload.message,
     Timestamp |-> payload.timestamp]

\* the response of the duplicate branch of step 2
DuplicateResponse(payload) ==
    [Unmarshal(payload) EXCEPT !.Message = "Duplicate request - returning previous result"]

\* what ProcessReward returns: (response, nil) or (nil, error)
Ok(response) == [err |-> "", response |-> << response >>]
Fail(e) == [err |-> e, response |-> << >>]
NoResult == [err |-> "pending", response |-> << >>]

(***************************************************************************)
(* Repository writes                                                       *)
(***************************************************************************)
\* mutant: processed_at is not part of the SET list
MarkProcessedNoTimestamp(eventID, responsePayload, t) ==
    [i \in DOMAIN reward_requests |->
        IF reward_requests[i].event_id = eventID
        THEN [reward_requests[i] EXCEPT !.response_payload = << responsePayload >>,
                                        !.status = "COMPLETED"]
        ELSE reward_requests[i]]

\* rewardRequestRepository.MarkProcessed: UPDATE reward_requests SET
\* response_payload = $1, status = 'COMPLETED', processed_at = $2
\* WHERE event_id = $3
MarkProcessed(eventID, responsePayload, t) ==
    [i \in DOMAIN reward_requests |->
        IF reward_requests[i].event_id = eventID
        THEN [reward_requests[i] EXCEPT !.response_payload = << responsePayload >>,
                                        !.status = "COMPLETED",
                                        !.processed_at = << t >>]
        ELSE reward_requests[i]]

\* the row rewardRequestRepository.Create inserts for the models.RewardRequest
\* of step 4
RewardRequestRow(r, id) ==
    [id |-> id,
     event_id |-> r.EventID,
     user_id |-> r.UserID,
     stock_symbol |-> r.StockSymbol,
     quantity |-> r.Quantity,
     request_payload |-> r,
     response_payload |-> << >>,
     status |-> "PROCESSING",
     processed_at |-> << >>]

\* a storage call may fail (connection lost, context cancelled) while the
\* fault budget lasts
Outcomes == IF faults < MaxFaults THEN {TRUE, FALSE} ELSE {TRUE}

Return(p, r) ==
    /\ result' = [result EXCEPT ![p] = r]
    /\ pc' = [pc EXCEPT ![p] = "done"]

Goto(p, label) ==
    /\ pc' = [pc EXCEPT ![p] = label]
    /\ UNCHANGED result

(***************************************************************************)
(* ProcessReward, one action per storage call                              *)
(***************************************************************************)
\* entry and Step 1: Validate request
Validate(p, r) ==
    /\ pc[p] = "idle"
    /\ Numbered(p, r)
    /\ req' = [req EXCEPT ![p] = r]
    /\ IF validateRequest(r) # ""
       THEN Return(p, Fail("validation failed"))
       ELSE Goto(p, "lookup")
    /\ UNCHANGED << tables, now, faults, locals >>

\* mutant: a replay of a COMPLETED record marks it processed once more
CheckIdempotencyTouching(p) ==
    /\ pc[p] = "lookup"
    /\ LET found == RequestRows(req[p].EventID) IN
       \E ok \in Outcomes :
          /\ ok \/ found # << >>
          /\ faults' = IF ok THEN faults ELSE faults + 1
          /\ IF ok /\ found # << >>
             THEN LET existingRequest == found[1] IN
                  IF /\ existingRequest.status = "COMPLETED"
                     /\ existingRequest.response_payload # << >>
                  THEN /\ Return(p, Ok(DuplicateResponse(existingRequest.response_payload[1])))
                       /\ reward_requests' = MarkProcessed(req[p].EventID,
                              existingRequest.response_payload[1], now + 1)
                  ELSE /\ Return(p, Fail("request already processing or failed"))
                       /\ UNCHANGED reward_requests
             ELSE /\ Goto(p, "user")
                  /\ UNCHANGED reward_requests
    /\ UNCHANGED << rewards, ledger_entries, stock_prices,
                    reward_requests_id_seq, rewards_id_seq, now, req, locals >>

\* mutant: the cached response is returned only to a request equal to the
\* one that was recorded
CheckIdempotencyPayloadChecked(p) ==
    /\ pc[p] = "lookup"
    /\ LET found == RequestRows(req[p].EventID) IN
       \E ok \in Outcomes :
          /\ ok \/ found # << >>
          /\ faults' = IF ok THEN faults ELSE faults + 1
          /\ IF ok /\ found # << >>
             THEN LET existingRequest == found[1] IN
                  IF /\ existingRequest.status = "COMPLETED"
                     /\ existingRequest.response_payload # << >>
                     /\ existingRequest.request_payload = req[p]
                  THEN Return(p, Ok(DuplicateResponse(existingRequest.response_payload[1])))
                  ELSE Return(p, Fail("request already processing or failed"))
             ELSE Goto(p, "user")
    /\ UNCHANGED << tables, now, req, locals >>

\* Step 2: Check idempotency (rewardRequestRepo.GetByEventID).  A read that
\* fails is taken by ProcessReward for "no record".
CheckIdempotency(p) ==
    /\ pc[p] = "lookup"
    /\ LET found == RequestRows(req[p].EventID) IN
       \E ok \in Outcomes :
          /\ ok \/ found # << >>
          /\ faults' = IF ok THEN faults ELSE faults + 1
          /\ IF ok /\ found # << >>
             THEN LET existingRequest == found[1] IN
                  IF /\ existingRequest.status = "COMPLETED"
                     /\ existingRequest.response_payload # << >>
                  THEN Return(p, Ok(DuplicateResponse(existingRequest.response_payload[1])))
                  ELSE Return(p, Fail("request already processing or failed"))
             ELSE Goto(p, "user")
    /\ UNCHANGED << tables, now, req, locals >>

\* mutant: the idempotency record is inserted before the user is looked up
EnsureUserExistsAfterReserve(p) ==
    /\ pc[p] = "user"
    /\ \E ok \in Outcomes :
          /\ faults' = IF ok THEN faults ELSE faults + 1
          /\ IF ~ok
             THEN /\ Return(p, Fail("failed to check user existence"))
                  /\ UNCHANGED << reward_requests, reward_requests_id_seq >>
             ELSE IF ~Exists(req[p].UserID)
             THEN /\ Return(p, Fail("user does not exist"))
                  /\ reward_requests_id_seq' = reward_requests_id_seq + 1
                  /\ reward_requests' =
                        IF RewardRequestsEventIdTaken(req[p].EventID)
                        THEN reward_requests
                        ELSE Append(reward_requests,
                                    RewardRequestRow(req[p], reward_requests_id_seq + 1))
             ELSE /\ Goto(p, "reserve")
                  /\ UNCHANGED << reward_requests, reward_requests_id_seq >>
    /\ UNCHANGED << rewards, ledger_entries, stock_prices, rewards_id_seq,
                    now, req, locals >>

\* Step 3: Ensure user exists (userRepo.Exists)
EnsureUserExists(p) ==
    /\ pc[p] = "user"
    /\ \E ok \in Outcomes :
          /\ faults' = IF ok THEN faults ELSE faults + 1
          /\ IF ~ok
             THEN Return(p, Fail("failed to check user existence"))
             ELSE IF ~Exists(req[p].UserID)
             THEN Return(p, Fail("user does not exist"))
             ELSE Goto(p, "reserve")
    /\ UNCHANGED << tables, now, req, locals >>

\* mutant: the error of Create is logged and processing goes on, as it does
\* at steps 8 and 9
CreateIdempotencyRecordLogged(p) ==
    /\ pc[p] = "reserve"
    /\ \E ok \in Outcomes :
          /\ faults' = IF ok THEN faults ELSE faults + 1
          /\ IF ~ok
             THEN UNCHANGED << reward_requests, reward_requests_id_seq >>
             ELSE IF RewardRequestsEventIdTaken(req[p].EventID)
             THEN /\ reward_requests_id_seq' = reward_requests_id_seq + 1
                  /\ UNCHANGED reward_requests
             ELSE /\ reward_requests_id_seq' = reward_requests_id_seq + 1
                  /\ reward_requests' = Append(reward_requests,
                         RewardRequestRow(req[p], reward_requests_id_seq + 1))
    /\ Goto(p, "price")
    /\ UNCHANGED << rewards, ledger_entries, stock_prices, rewards_id_seq,
                    now, req, locals >>

\* Step 4: Create idempotency record (rewardRequestRepo.Create)
CreateIdempotencyRecord(p) ==
    /\ pc[p] = "reserve"
    /\ \E ok \in Outcomes :
          /\ faults' = IF ok THEN faults ELSE faults + 1
          /\ IF ~ok
             THEN /\ Return(p, Fail("failed to create idempotency record"))
                  /\ UNCHANGED << reward_requests, reward_requests_id_seq >>
             ELSE IF RewardRequestsEventIdTaken(req[p].EventID)
             THEN /\ Return(p, Fail("failed to create idempotency record"))
                  /\ reward_requests_id_seq' = reward_requests_id_seq + 1
                  /\ UNCHANGED reward_requests
             ELSE /\ Goto(p, "price")
                  /\ reward_requests_id_seq' = reward_requests_id_seq + 1
                  /\ reward_requests' = Append(reward_requests,
                         RewardRequestRow(req[p], reward_requests_id_seq + 1))
    /\ UNCHANGED << rewards, ledger_entries, stock_prices, rewards_id_seq,
                    now, req, locals >>

\* mutant: a symbol without a stored price waits for the hourly price job
\* instead of fetching the price itself
GetLatestPriceBlocking(p) ==
    /\ pc[p] = "price"
    /\ LET found == PriceRows(req[p].StockSymbol) IN
          /\ found # << >>
          /\ stockPrice' = [stockPrice EXCEPT ![p] = found[Len(found)].price]
          /\ Goto(p, "reward")
    /\ UNCHANGED << tables, now, faults, req,
                    createdReward, ledgerErr, markErr, calc, tx >>

\* mutant: a call that cannot get a price takes back its idempotency record
GetLatestPriceReleasing(p) ==
    /\ pc[p] = "price"
    /\ LET found == PriceRows(req[p].StockSymbol) IN
       \E readOk \in Outcomes :
          /\ readOk \/ found # << >>
          /\ IF readOk /\ found # << >>
             THEN /\ stockPrice' = [stockPrice EXCEPT ![p] = found[Len(found)].price]
                  /\ Goto(p, "reward")
                  /\ UNCHANGED << stock_prices, faults, reward_requests >>
             ELSE \E price \in GenPrices, saveOk \in BOOLEAN :
                  /\ faults' = faults + (IF readOk THEN 0 ELSE 1)
                                      + (IF saveOk THEN 0 ELSE 1)
                  /\ faults' <= MaxFaults
                  /\ IF saveOk
                     THEN /\ stock_prices' = Append(stock_prices,
                                 [stock_symbol |-> req[p].StockSymbol, price |-> price])
                          /\ stockPrice' = [stockPrice EXCEPT ![p] = price]
                          /\ Goto(p, "reward")
                          /\ UNCHANGED reward_requests
                     ELSE /\ Return(p, Fail("failed to get stock price"))
                          /\ reward_requests' = SelectSeq(reward_requests,
                                 LAMBDA r : r.event_id # req[p].EventID)
                          /\ UNCHANGED << stock_prices, stockPrice >>
    /\ UNCHANGED << rewards, ledger_entries,
                    reward_requests_id_seq, rewards_id_seq, now, req,
                    createdReward, ledgerErr, markErr, calc, tx >>

\* Step 5: Get latest stock price (PriceService.GetLatestPrice): the latest
\* row of the symbol, else UpdateSinglePrice generates and saves a price
GetLatestPrice(p) ==
    /\ pc[p] = "price"
    /\ LET found == PriceRows(req[p].StockSymbol) IN
       \E readOk \in Outcomes :
          /\ readOk \/ found # << >>
          /\ IF readOk /\ found # << >>
             THEN /\ stockPrice' = [stockPrice EXCEPT ![p] = found[Len(found)].price]
                  /\ Goto(p, "reward")
                  /\ UNCHANGED << stock_prices, faults >>
             ELSE \E price \in GenPrices, saveOk \in BOOLEAN :
                  /\ faults' = faults + (IF readOk THEN 0 ELSE 1)
                                      + (IF saveOk THEN 0 ELSE 1)
                  /\ faults' <= MaxFaults
                  /\ IF saveOk
                     THEN /\ stock_prices' = Append(stock_prices,
                                 [stock_symbol |-> req[p].StockSymbol, price |-> price])
                          /\ stockPrice' = [stockPrice EXCEPT ![p] = price]
                          /\ Goto(p, "reward")
                     ELSE /\ Return(p, Fail("failed to get stock price"))
                          /\ UNCHANGED << stock_prices, stockPrice >>
    /\ UNCHANGED << reward_requests, rewards, ledger_entries,
                    reward_requests_id_seq, rewards_id_seq, now, req,
                    createdReward, ledgerErr, markErr, calc, tx >>

\* mutant: the error of rewardRepo.Create is logged and processing goes on
CreateRewardRecordLogged(p) ==
    /\ pc[p] = "reward"
    /\ LET reward == BuildReward(req[p], stockPrice[p], now) IN
       \E ok \in Outcomes :
          /\ faults' = IF ok THEN faults ELSE faults + 1
          /\ IF ~ok
             THEN /\ createdReward' = [createdReward EXCEPT ![p] = << reward >>]
                  /\ UNCHANGED << rewards, rewards_id_seq >>
             ELSE IF \/ RewardsEventIdTaken(reward.EventID)
                     \/ reward.Quantity = 0
                     \/ reward.StockPrice < 0
             THEN /\ createdReward' = [createdReward EXCEPT ![p] = << reward >>]
                  /\ rewards_id_seq' = rewards_id_seq + 1
                  /\ UNCHANGED rewards
             ELSE /\ rewards_id_seq' = rewards_id_seq + 1
                  /\ rewards' = Append(rewards, RewardRow(reward, rewards_id_seq + 1))
                  /\ createdReward' = [createdReward EXCEPT ![p] =
                         << [reward EXCEPT !.ID = rewards_id_seq + 1] >>]
    /\ Goto(p, "ledger")
    /\ now' = now + 1
    /\ UNCHANGED << reward_requests, ledger_entries, stock_prices,
                    reward_requests_id_seq, req, stockPrice,
                    ledgerErr, markErr, calc, tx >>

\* Steps 6 and 7: Calculate values, create reward record (rewardRepo.Create).
\* The request carries no event timestamp, so time.Now() is read.
CreateRewardRecord(p) ==
    /\ pc[p] = "reward"
    /\ LET reward == BuildReward(req[p], stockPrice[p], now) IN
       \E ok \in Outcomes :
          /\ faults' = IF ok THEN faults ELSE faults + 1
          /\ IF ~ok
             THEN /\ Return(p, Fail("failed to create reward"))
                  /\ UNCHANGED << rewards, rewards_id_seq, createdReward >>
             ELSE IF \/ RewardsEventIdTaken(reward.EventID)
                     \/ reward.Quantity = 0
                     \/ reward.StockPrice < 0
             THEN /\ Return(p, Fail("failed to create reward"))
                  /\ rewards_id_seq' = rewards_id_seq + 1
                  /\ UNCHANGED << rewards, createdReward >>
             ELSE /\ Goto(p, "ledger")
                  /\ rewards_id_seq' = rewards_id_seq + 1
                  /\ rewards' = Append(rewards, RewardRow(reward, rewards_id_seq + 1))
                  /\ createdReward' = [createdReward EXCEPT ![p] =
                         << [reward EXCEPT !.ID = rewards_id_seq + 1] >>]
    /\ now' = now + 1
    /\ UNCHANGED << reward_requests, ledger_entries, stock_prices,
                    reward_requests_id_seq, req, stockPrice,
                    ledgerErr, markErr, calc, tx >>

\* Step 8: Create ledger entries; an error is logged, not returned
CreateLedger(p) ==
    /\ pc[p] = "ledger"
    /\ LET entries == createLedgerEntries(createdReward[p][1]) IN
       \E ok \in Outcomes :
          /\ faults' = IF ok THEN faults ELSE faults + 1
          /\ IF ok /\ \A row \in Rows(LedgerRowsOf(entries)) : LedgerRowAccepted(row)
             THEN /\ ledger_entries' = BulkCreate(entries)
                  /\ UNCHANGED ledgerErr
             ELSE /\ ledgerErr' = [ledgerErr EXCEPT ![p] = "failed to insert ledger entry"]
                  /\ UNCHANGED ledger_entries
    /\ Goto(p, "mark")
    /\ UNCHANGED << reward_requests, rewards, stock_prices,
                    reward_requests_id_seq, rewards_id_seq, now, req,
                    stockPrice, createdReward, markErr, calc, tx >>

\* Step 9: Mark request as completed; an error is logged, not returned
MarkCompleted(p) ==
    /\ pc[p] = "mark"
    /\ LET response == BuildResponse(createdReward[p][1], now) IN
       /\ \E ok \in Outcomes :
             /\ faults' = IF ok THEN faults ELSE faults + 1
             /\ IF ok
                THEN /\ reward_requests' =
                            MarkProcessed(req[p].EventID, Marshal(response), now)
                     /\ UNCHANGED markErr
                ELSE /\ markErr' = [markErr EXCEPT ![p] = "failed to mark request as processed"]
                     /\ UNCHANGED reward_requests
       /\ Return(p, Ok(response))
    /\ now' = now + 1
    /\ UNCHANGED << rewards, ledger_entries, stock_prices,
                    reward_requests_id_seq, rewards_id_seq, req,
                    stockPrice, createdReward, ledgerErr, calc, tx >>

(***************************************************************************)
(* Environment                                                             *)
(***************************************************************************)
\* PriceService.UpdateSinglePrice, from the cron job or the price routes
UpdateSinglePrice(symbol, price) ==
    /\ Len(stock_prices) < MaxPriceRows
    /\ stock_prices' = Append(stock_prices, [stock_symbol |-> symbol, price |-> price])
    /\ UNCHANGED << reward_requests, rewards, ledger_entries,
                    reward_requests_id_seq, rewards_id_seq, now, faults,
                    pc, req, locals, result >>

(***************************************************************************)
(* Steps 6 to 8 for one event on its own                                   *)
(***************************************************************************)
CalcOff == [phase |-> "off", req |-> NoRequest, price |-> 0, reward |-> << >>]

\* Steps 6 and 7: the reward is computed and stored
CalcValues ==
    /\ calc.phase = "event"
    /\ validateRequest(calc.req) = ""
    /\ LET reward == BuildReward(calc.req, calc.price, now) IN
       /\ rewards' = Append(rewards, RewardRow(reward, rewards_id_seq + 1))
       /\ rewards_id_seq' = rewards_id_seq + 1
       /\ calc' = [calc EXCEPT !.phase = "priced",
                               !.reward = << [reward EXCEPT !.ID = rewards_id_seq + 1] >>]
    /\ UNCHANGED << reward_requests, ledger_entries, stock_prices,
                    reward_requests_id_seq, now, faults, pc, req, stockPrice,
                    createdReward, ledgerErr, markErr, result, tx >>

\* Step 8: the entries createLedgerEntries builds are stored
CalcLedger ==
    /\ calc.phase = "priced"
    /\ LET entries == createLedgerEntries(calc.reward[1]) IN
       ledger_entries' = IF \A row \in Rows(LedgerRowsOf(entries)) : LedgerRowAccepted(row)
                         THEN BulkCreate(entries)
                         ELSE ledger_entries
    /\ calc' = [calc EXCEPT !.phase = "ledgered"]
    /\ UNCHANGED << reward_requests, rewards, stock_prices,
                    reward_requests_id_seq, rewards_id_seq, now, faults, pc,
                    req, stockPrice, createdReward, ledgerErr, markErr, result,
                    tx >>

(***************************************************************************)
(* Repository calls on their own                                           *)
(***************************************************************************)
\* the requests and cached responses the repositories are called with
RepoRequests ==
    { Request("USR001", "AAPL", 105, "EVT-001"),
      Request("USR002", "NVDA", 0 - 50, "EVT-002") }

\* the corrections rewardRepository.Update is called with: a struct holding
\* the id, the new status and notes, and zero values elsewhere
RepoCorrections ==
    { [Status |-> "CANCELLED", Notes |-> << "corrected" >>],
      [Status |-> "COMPLETED", Notes |-> << >>] }

RepoResponse(r, t) ==
    Marshal(BuildResponse([BuildReward(r, 12345, t) EXCEPT !.ID = 1], t))

\* mutant: the UPDATE also writes the net value of the struct it is given
rewardRepository_UpdateNet(reward) ==
    [i \in DOMAIN rewards |->
        IF rewards[i].id = reward.ID
        THEN [rewards[i] EXCEPT !.status = reward.Status,
                                !.notes = reward.Notes,
                                !.net_value_inr = Decimal15_2(reward.NetValueINR)]
        ELSE rewards[i]]

\* rewardRepository.Update: UPDATE rewards SET status = $1, notes = $2
\* WHERE id = $3
rewardRepository_Update(reward) ==
    [i \in DOMAIN rewards |->
        IF rewards[i].id = reward.ID
        THEN [rewards[i] EXCEPT !.status = reward.Status, !.notes = reward.Notes]
        ELSE rewards[i]]

\* rewardRequestRepository.Create called directly
RepoReserve(r) ==
    /\ reward_requests_id_seq' = reward_requests_id_seq + 1
    /\ reward_requests_id_seq < MaxRepoCalls
    /\ reward_requests' =
          IF RewardRequestsEventIdTaken(r.EventID)
          THEN reward_requests
          ELSE Append(reward_requests, RewardRequestRow(r, reward_requests_id_seq + 1))
    /\ UNCHANGED << rewards, ledger_entries, stock_prices, rewards_id_seq, now,
                    faults, pc, req, locals, result >>

\* rewardRequestRepository.MarkProcessed called directly, time.Now() read
RepoMarkProcessed(eventID, r) ==
    /\ now < MaxRepoCalls
    /\ reward_requests' = MarkProcessed(eventID, RepoResponse(r, 0), now)
    /\ now' = now + 1
    /\ UNCHANGED << rewards, ledger_entries, stock_prices,
                    reward_requests_id_seq, rewards_id_seq,
                    faults, pc, req, locals, result >>

\* rewardRepository.Create called directly with the Reward of a request
RepoCreateReward(r, price) ==
    /\ rewards_id_seq < MaxRepoCalls
    /\ rewards_id_seq' = rewards_id_seq + 1
    /\ rewards' =
          IF RewardsEventIdTaken(r.EventID)
          THEN rewards
          ELSE Append(rewards, RewardRow(BuildReward(r, price, 0), rewards_id_seq + 1))
    /\ UNCHANGED << reward_requests, ledger_entries, stock_prices,
                    reward_requests_id_seq, now,
                    faults, pc, req, locals, result >>

\* rewardRepository.Update called with a Reward struct whose fields the
\* caller has set
RepoUpdate(id, status, notes, net) ==
    /\ rewards' = rewardRepository_Update(
                      [ID |-> id, Status |-> status, Notes |-> notes,
                       NetValueINR |-> net])
    /\ UNCHANGED << reward_requests, ledger_entries, stock_prices,
                    reward_requests_id_seq, rewards_id_seq, now,
                    faults, pc, req, locals, result >>

(***************************************************************************)
(* db.WithTransaction                                                      *)
(***************************************************************************)
\* pc: where the caller stands; fn: how fn ended; err: the local variable
\* err; ret: the value WithTransaction returned ("none" before it returns,
\* "" for nil); pending: rows written inside the open transaction; stored:
\* rows committed so far; outcome: what happened to the transaction
TxOff == [pc |-> "idle", fn |-> "none", err |-> "", ret |-> "none",
          pending |-> 0, stored |-> 0, outcome |-> "none", calls |-> 0]

TxFrame ==
    UNCHANGED << tables, now, faults, pc, req,
                 stockPrice, createdReward, ledgerErr, markErr, calc, result >>

\* tx, err := DB.Begin(ctx); if err != nil { return err }
WithTransactionBegin ==
    /\ tx.pc \in {"idle", "returned", "panicked"}
    /\ tx.calls < MaxTxCalls
    /\ \E ok \in BOOLEAN :
          tx' = IF ok
                THEN [tx EXCEPT !.pc = "fn", !.fn = "none", !.err = "",
                                !.ret = "none", !.pending = 0,
                                !.outcome = "none", !.calls = @ + 1]
                ELSE [tx EXCEPT !.pc = "returned", !.fn = "none",
                                !.err = "begin failed", !.ret = "begin failed",
                                !.pending = 0, !.outcome = "none",
                                !.calls = @ + 1]
    /\ TxFrame

\* fn executes one statement inside the transaction
FnWrite ==
    /\ tx.pc = "fn"
    /\ tx.pending < MaxTxWrites
    /\ tx' = [tx EXCEPT !.pending = @ + 1]
    /\ TxFrame

\* err = fn(ctx); return err: the result of WithTransaction is set to the
\* value of err here, before the deferred function runs
FnReturn(e) ==
    /\ tx.pc = "fn"
    /\ tx' = [tx EXCEPT !.pc = "defer", !.err = e, !.ret = e,
                        !.fn = IF e = "" THEN "nil" ELSE "error"]
    /\ TxFrame

\* fn panics: err is not assigned and no return statement is reached
FnPanic ==
    /\ tx.pc = "fn"
    /\ tx' = [tx EXCEPT !.pc = "defer", !.fn = "panic"]
    /\ TxFrame

\* the deferred function: Rollback and re-panic after a panic, Rollback
\* when err != nil, else err = tx.Commit(ctx).  The result is unnamed, so
\* the assignment to err does not reach the caller.
WithTransactionDeferred ==
    /\ tx.pc = "defer"
    /\ IF tx.fn = "panic"
       THEN tx' = [tx EXCEPT !.pc = "panicked", !.pending = 0,
                            !.outcome = "rolled back"]
       ELSE IF tx.err # ""
       THEN tx' = [tx EXCEPT !.pc = "returned", !.pending = 0,
                            !.outcome = "rolled back"]
       ELSE \E ok \in BOOLEAN :
               tx' = IF ok
                     THEN [tx EXCEPT !.pc = "returned", !.pending = 0,
                                     !.stored = @ + tx.pending,
                                     !.outcome = "committed"]
                     ELSE [tx EXCEPT !.pc = "returned", !.pending = 0,
                                     !.err = "commit failed",
                                     !.outcome = "commit failed"]
    /\ TxFrame

(***************************************************************************)
(* Specification                                                           *)
(***************************************************************************)
Init ==
    /\ reward_requests = << >>
    /\ rewards = << >>
    /\ ledger_entries = << >>
    /\ stock_prices = SeedPrices
    /\ reward_requests_id_seq = 0
    /\ rewards_id_seq = 0
    /\ now = 0
    /\ faults = 0
    /\ pc = [p \in Procs |-> "idle"]
    /\ req = [p \in Procs |-> NoRequest]
    /\ stockPrice = [p \in Procs |-> 0]
    /\ createdReward = [p \in Procs |-> << >>]
    /\ ledgerErr = [p \in Procs |-> ""]
    /\ markErr = [p \in Procs |-> ""]
    /\ result = [p \in Procs |-> NoResult]
    /\ calc = CalcOff
    /\ tx = TxOff

Next ==
    \/ \E p \in Procs, r \in Requests : Validate(p, r)
    \/ \E p \in Procs : CheckIdempotency(p)
    \/ \E p \in Procs : EnsureUserExists(p)
    \/ \E p \in Procs : CreateIdempotencyRecord(p)
    \/ \E p \in Procs : GetLatestPrice(p)
    \/ \E p \in Procs : CreateRewardRecord(p)
    \/ \E p \in Procs : CreateLedger(p)
    \/ \E p \in Procs : MarkCompleted(p)
    \/ \E symbol \in UpdatedSymbols, price \in GenPrices : UpdateSinglePrice(symbol, price)

Spec == Init /\ [][Next]_vars

\* the specification of the pure computations: one event per behaviour
InitCalc ==
    /\ reward_requests = << >>
    /\ rewards = << >>
    /\ ledger_entries = << >>
    /\ stock_prices = SeedPrices
    /\ reward_requests_id_seq = 0
    /\ rewards_id_seq = 0
    /\ now = 0
    /\ faults = 0
    /\ pc = [p \in Procs |-> "done"]
    /\ req = [p \in Procs |-> NoRequest]
    /\ stockPrice = [p \in Procs |-> 0]
    /\ createdReward = [p \in Procs |-> << >>]
    /\ ledgerErr = [p \in Procs |-> ""]
    /\ markErr = [p \in Procs |-> ""]
    /\ result = [p \in Procs |-> NoResult]
    /\ \E q \in CalcQuantities, price \in CalcPrices :
          calc = [CalcOff EXCEPT !.phase = "event",
                                 !.req = Request("USR001", "AAPL", q, "EVT-001"),
                                 !.price = price]
    /\ tx = TxOff

NextCalc ==
    \/ CalcValues
    \/ CalcLedger

SpecCalc == InitCalc /\ [][NextCalc]_vars

\* the specification of the runs in which no collaborator fails: the fault
\* budget is spent from the start, and every invocation that has entered
\* ProcessReward goes on to its next step (each goroutine is scheduled and
\* each storage call returns)
InitLive ==
    /\ reward_requests = << >>
    /\ rewards = << >>
    /\ ledger_entries = << >>
    /\ stock_prices = SeedPrices
    /\ reward_requests_id_seq = 0
    /\ rewards_id_seq = 0
    /\ now = 0
    /\ faults = MaxFaults
    /\ pc = [p \in Procs |-> "idle"]
    /\ req = [p \in Procs |-> NoRequest]
    /\ stockPrice = [p \in Procs |-> 0]
    /\ createdReward = [p \in Procs |-> << >>]
    /\ ledgerErr = [p \in Procs |-> ""]
    /\ markErr = [p \in Procs |-> ""]
    /\ result = [p \in Procs |-> NoResult]
    /\ calc = CalcOff
    /\ tx = TxOff

\* the next statement of invocation p, steps 2 to 9: at most one is enabled
Step(p) ==
    \/ CheckIdempotency(p)
    \/ EnsureUserExists(p)
    \/ CreateIdempotencyRecord(p)
    \/ GetLatestPrice(p)
    \/ CreateRewardRecord(p)
    \/ CreateLedger(p)
    \/ MarkCompleted(p)

Fairness == \A p \in Procs : WF_vars(Step(p))

\* the invocations alone: the hourly price job is left out, a symbol without
\* a stored price gets its price inside GetLatestPrice
NextLive ==
    \/ \E p \in Procs, r \in Requests : Validate(p, r)
    \/ \E p \in Procs : Step(p)

SpecLive == InitLive /\ [][NextLive]_vars /\ Fairness

\* the specification of the repository calls: any call, in any order
InitRepo ==
    /\ reward_requests = << >>
    /\ rewards = << >>
    /\ ledger_entries = << >>
    /\ stock_prices = SeedPrices
    /\ reward_requests_id_seq = 0
    /\ rewards_id_seq = 0
    /\ now = 0
    /\ faults = 0
    /\ pc = [p \in Procs |-> "done"]
    /\ req = [p \in Procs |-> NoRequest]
    /\ stockPrice = [p \in Procs |-> 0]
    /\ createdReward = [p \in Procs |-> << >>]
    /\ ledgerErr = [p \in Procs |-> ""]
    /\ markErr = [p \in Procs |-> ""]
    /\ result = [p \in Procs |-> NoResult]
    /\ calc = CalcOff
    /\ tx = TxOff

NextRepo ==
    \/ \E r \in RepoRequests : RepoReserve(r)
    \/ \E e \in {"EVT-001", "EVT-002", "EVT-404"}, r \in RepoRequests :
          RepoMarkProcessed(e, r)
    \/ \E r \in RepoRequests : RepoCreateReward(r, 12345)
    \/ \E id \in 1..MaxRepoCalls, c \in RepoCorrections :
          RepoUpdate(id, c.Status, c.Notes, 0)

SpecRepo == InitRepo /\ [][NextRepo]_vars

\* the specification of db.WithTransaction: one caller, call after call
InitTx ==
    /\ reward_requests = << >>
    /\ rewards = << >>
    /\ ledger_entries = << >>
    /\ stock_prices = SeedPrices
    /\ reward_requests_id_seq = 0
    /\ rewards_id_seq = 0
    /\ now = 0
    /\ faults = 0
    /\ pc = [p \in Procs |-> "done"]
    /\ req = [p \in Procs |-> NoRequest]
    /\ stockPrice = [p \in Procs |-> 0]
    /\ createdReward = [p \in Procs |-> << >>]
    /\ ledgerErr = [p \in Procs |-> ""]
    /\ markErr = [p \in Procs |-> ""]
    /\ result = [p \in Procs |-> NoResult]
    /\ calc = CalcOff
    /\ tx = TxOff

NextTx ==
    \/ WithTransactionBegin
    \/ FnWrite
    \/ \E e \in {"", "fn failed"} : FnReturn(e)
    \/ FnPanic
    \/ WithTransactionDeferred

SpecTx == InitTx /\ [][NextTx]_vars

(***************************************************************************)
(* Vocabulary of the properties                                            *)
(***************************************************************************)
EventIDs == { r.EventID : r \in Requests } \ {""}

\* invocation p was called with a request that passes validation
Valid(p) == pc[p] # "idle" /\ validateRequest(req[p]) = ""

Returned(p) == pc[p] = "done"

\* p returned the response it built itself at step 9
Fresh(p) ==
    /\ Returned(p)
    /\ result[p].err = ""
    /\ result[p].response[1].Message = "Reward processed successfully"

\* p returned the cached response of step 2
Duplicate(p) ==
    /\ Returned(p)
    /\ result[p].err = ""
    /\ result[p].response[1].Message = "Duplicate request - returning previous result"

\* the two errors the specification calls Conflict
ConflictErrs == {"request already processing or failed",
                 "failed to create idempotency record"}

\* p's reserve (step 4) succeeded: p is at, or returned from, steps 5 to 9
Reserved(p) ==
    \/ pc[p] \in {"price", "reward", "ledger", "mark"}
    \/ /\ Returned(p)
       /\ \/ result[p].err \in {"failed to get stock price", "failed to create reward"}
          \/ Fresh(p)

SameButMessage(a, b) == [a EXCEPT !.Message = ""] = [b EXCEPT !.Message = ""]

Completed(e) ==
    /\ RequestRows(e) # << >>
    /\ RequestRows(e)[1].status = "COMPLETED"

LedgerRowsOfEvent(e) == SelectSeq(ledger_entries, LAMBDA l : l.reference_id = e)

\* two invocations for one event identifier, both valid, both users known
SameValidEvent(p, q) ==
    /\ p # q
    /\ Valid(p) /\ Valid(q)
    /\ req[p].EventID = req[q].EventID
    /\ Exists(req[p].UserID) /\ Exists(req[q].UserID)

(***************************************************************************)
(* C1.  For every event identifier and every interleaving of ProcessReward *)
(* calls carrying it, failed calls included, at most one rewards row is    *)
(* stored, and the ledger rows of the event are none or the one set of     *)
(* entries generated for that reward, each belonging to that reward.       *)
(***************************************************************************)
C1_AtMostOneLedgerEffect ==
    /\ \A e \in EventIDs :
          /\ Len(RewardRows(e)) <= 1
          /\ \/ LedgerRowsOfEvent(e) = << >>
             \/ \E p \in Procs :
                   /\ createdReward[p] # << >>
                   /\ createdReward[p][1].EventID = e
                   /\ LedgerRowsOfEvent(e) =
                         LedgerRowsOf(createLedgerEntries(createdReward[p][1]))
    /\ \A l \in Rows(ledger_entries) :
          \E r \in Rows(rewards) : r.id = l.reward_id /\ r.event_id = l.reference_id

\* an event was processed, its ledger rows are stored, and a second call with
\* the same event has returned as well
C1_Witness ==
    \E p, q \in Procs :
       /\ SameValidEvent(p, q)
       /\ Fresh(p)
       /\ Returned(q)
       /\ LedgerRowsOfEvent(req[p].EventID) # << >>

C3_OneWinner ==
    /\ \A p, q \in Procs :
          SameValidEvent(p, q) => ~(Reserved(p) /\ Reserved(q))
    /\ \A q \in Procs :
          (/\ Returned(q) /\ Valid(q) /\ Exists(req[q].UserID)
           /\ ~Reserved(q)
           /\ result[q].err # "failed to check user existence")
          => \/ result[q].err \in ConflictErrs
             \/ /\ Duplicate(q)
                /\ Completed(req[q].EventID)
                /\ \E p \in Procs \ {q} :
                      /\ Fresh(p)
                      /\ req[p].EventID = req[q].EventID

\* the winner ran to the end while the loser's lookup met the PROCESSING record
C3_Witness ==
    \E p, q \in Procs :
       /\ SameValidEvent(p, q)
       /\ Fresh(p)
       /\ Returned(q)
       /\ result[q].err = "request already processing or failed"

(***************************************************************************)
(* C4.  There is at most one reward_requests row per event identifier in   *)
(* every reachable state, and the reserve step fails without a write when  *)
(* a row for the event exists, whatever its status, and otherwise, when    *)
(* the insert is carried out, appends exactly one row with status          *)
(* PROCESSING and no response.                                             *)
(***************************************************************************)
C4_AtMostOneRecord == \A e \in EventIDs : Len(RequestRows(e)) <= 1

C4_ReserveStep ==
    \A p \in Procs :
       (pc[p] = "reserve" /\ pc'[p] # "reserve")
       => IF RequestRows(req[p].EventID) # << >> \/ faults' # faults
          THEN /\ reward_requests' = reward_requests
               /\ pc'[p] = "done"
               /\ result'[p].err = "failed to create idempotency record"
          ELSE /\ Len(reward_requests') = Len(reward_requests) + 1
               /\ SubSeq(reward_requests', 1, Len(reward_requests)) = reward_requests
               /\ reward_requests'[Len(reward_requests')].event_id = req[p].EventID
               /\ reward_requests'[Len(reward_requests')].status = "PROCESSING"
               /\ reward_requests'[Len(reward_requests')].response_payload = << >>
               /\ pc'[p] = "price"

C4_Reserve == []C4_AtMostOneRecord /\ [][C4_ReserveStep]_vars

\* two reserves raced after both lookups found nothing: one holds the
\* record, the other was rejected by the constraint
C4_Witness ==
    \E p, q \in Procs :
       /\ SameValidEvent(p, q)
       /\ Reserved(p)
       /\ Returned(q)
       /\ result[q].err = "failed to create idempotency record"
       /\ faults = 0
       /\ RequestRows(req[p].EventID)[1].status = "PROCESSING"

(***************************************************************************)
(* C5.  A valid call whose lookup reads a COMPLETED record returns no      *)
(* error: it returns a response equal, in every field but the message, to  *)
(* the response the original caller received.                              *)
(***************************************************************************)
C5_ReplayStep ==
    \A p \in Procs :
       (/\ pc[p] = "lookup" /\ pc'[p] # "lookup"
        /\ faults' = faults
        /\ Completed(req[p].EventID))
       => /\ pc'[p] = "done"
          /\ result'[p].err = ""
          /\ result'[p].response[1].Message = "Duplicate request - returning previous result"
          /\ \E q \in Procs \ {p} :
                /\ Fresh(q)
                /\ req[q].EventID = req[p].EventID
                /\ SameButMessage(result'[p].response[1], result[q].response[1])

C5_Replay == [][C5_ReplayStep]_vars

\* a replay returned the cached response after the price had moved on
C5_Witness ==
    \E p, q \in Procs :
       /\ SameValidEvent(p, q)
       /\ Fresh(q)
       /\ Duplicate(p)
       /\ PriceRows(req[p].StockSymbol) # << >>
       /\ LET found == PriceRows(req[p].StockSymbol)
          IN  found[Len(found)].price # result[p].response[1].StockPrice

(***************************************************************************)
(* C6.  A call whose lookup reads a COMPLETED record returns at once and   *)
(* changes nothing: no table is written (no Reward, ledger entry, price or *)
(* idempotency record, and no sequence is advanced), the user is not       *)
(* checked and no price is fetched.                                        *)
(***************************************************************************)
C6_ReplayFrameStep ==
    \A p \in Procs :
       (/\ pc[p] = "lookup" /\ pc'[p] # "lookup"
        /\ faults' = faults
        /\ Completed(req[p].EventID))
       => /\ pc'[p] = "done"
          /\ tables' = tables
          /\ stockPrice'[p] = 0
          /\ createdReward'[p] = << >>

C6_ReplayFrame == [][C6_ReplayFrameStep]_vars

\* a replay has returned and the one Reward, its ledger rows and the record
\* are as the original call left them
C6_Witness ==
    \E p \in Procs :
       /\ Duplicate(p)
       /\ Len(rewards) = 1
       /\ Len(reward_requests) = 1
       /\ ledger_entries # << >>
       /\ reward_requests[1].processed_at # << >>

(***************************************************************************)
(* C7 as stated.  A call that returned a response leaves the idempotency   *)
(* record of its event COMPLETED with that response cached, also when      *)
(* storage calls fail.                                                     *)
(***************************************************************************)
C7_SuccessImpliesCompleted ==
    \A p \in Procs :
       (Returned(p) /\ result[p].err = "")
       => /\ Completed(req[p].EventID)
          /\ RequestRows(req[p].EventID)[1].response_payload # << >>
          /\ SameButMessage(Unmarshal(RequestRows(req[p].EventID)[1].response_payload[1]),
                            result[p].response[1])

(***************************************************************************)
(* C8 as stated.  Once the call that stored a Reward has returned, the     *)
(* Reward has its ledger rows, and no ledger row is without its Reward.    *)
(***************************************************************************)
C8_RewardAndLedgerAtomic ==
    /\ \A p \in Procs :
          (Returned(p) /\ createdReward[p] # << >>)
          => LedgerRows(createdReward[p][1].ID) # << >>
    /\ \A l \in Rows(ledger_entries) : \E r \in Rows(rewards) : r.id = l.reward_id

(***************************************************************************)
(* C9 as stated.  A call whose ledger persistence failed does not return a *)
(* successful response.                                                    *)
(***************************************************************************)
C9_LedgerFailureSurfaces ==
    \A p \in Procs :
       (Returned(p) /\ ledgerErr[p] # "") => result[p].err # ""

(***************************************************************************)
(* C10.  For every priced Reward with non-zero quantity of either sign and *)
(* non-negative price, the ledger rows generated and stored for it are     *)
(* accepted by the table, are not empty, and balance: the sum of the DEBIT *)
(* amounts equals the sum of the CREDIT amounts (validate_ledger_balance). *)
(***************************************************************************)
C10_LedgerBalanced ==
    calc.phase = "ledgered"
    => /\ calc.req.Quantity # 0 /\ calc.price >= 0
       /\ LedgerRows(calc.reward[1].ID) # << >>
       /\ LedgerRows(calc.reward[1].ID) = ledger_entries
       /\ validate_ledger_balance(calc.reward[1].ID)

\* a grant whose gross value is not a whole number of paise, with both fees
\* charged: six rows
C10_Witness ==
    /\ calc.phase = "ledgered"
    /\ calc.req.Quantity > 0
    /\ calc.reward[1].TotalValueINR % 10 # 0
    /\ Len(ledger_entries) = 6

(***************************************************************************)
(* C11.  Every Reward built at step 6 has gross value quantity x price,    *)
(* and net value gross - brokerage fee - transaction fee when the quantity *)
(* is positive, gross + brokerage fee + transaction fee when it is         *)
(* negative; the net value stored in its row obeys the same relation to    *)
(* the stored gross value and fees.                                        *)
(***************************************************************************)
C11_NetValueFormula ==
    calc.reward # << >>
    => LET reward == calc.reward[1]
           row == rewards[Len(rewards)]
       IN  /\ reward.TotalValueINR = calc.req.Quantity * calc.price
           /\ calc.req.Quantity > 0 =>
                 /\ reward.NetValueINR =
                       reward.TotalValueINR - reward.BrokerageFee - reward.TransactionFee
                 /\ row.net_value_inr =
                       row.total_value_inr - row.brokerage_fee - row.transaction_fee
           /\ calc.req.Quantity < 0 =>
                 /\ reward.NetValueINR =
                       reward.TotalValueINR + reward.BrokerageFee + reward.TransactionFee
                 /\ row.net_value_inr =
                       row.total_value_inr + row.brokerage_fee + row.transaction_fee

\* an adjustment (negative quantity) on which both fees are charged
C11_Witness ==
    /\ calc.reward # << >>
    /\ calc.req.Quantity < 0
    /\ calc.reward[1].BrokerageFee > 0
    /\ calc.reward[1].TransactionFee > 0
    /\ calc.reward[1].NetValueINR > calc.reward[1].TotalValueINR

(***************************************************************************)
(* C12.  The brokerage fee and the transaction fee of every amount are the *)
(* whole-paise values nearest to |amount| x 0.1% and |amount| x 0.05%,     *)
(* with no minimum: each is non-negative, is the same for amount and       *)
(* -amount, and is 0 when the product is below half a paisa; quantity 10.5 *)
(* at price 175.50 gives gross 1842.75, brokerage 1.84, fee 0.92 and net   *)
(* 1839.99.                                                                *)
(***************************************************************************)
NearestPaise(fee, n, d) ==
    /\ fee % 10 = 0
    /\ 2 * Abs(fee * d - n) <= 10 * d

HalfAwayFromZero(y, n, d) ==
    /\ NearestPaise(y, n, d)
    /\ 2 * Abs(y * d - n) = 10 * d => Abs(y * d) > Abs(n)
    /\ (n < 0 => y <= 0) /\ (n > 0 => y >= 0)

C13_Rounding ==
    calc.reward # << >>
    => LET reward == calc.reward[1]
           amount == reward.TotalValueINR
           inputs == { << Abs(amount) * brokeragePercent, 10000 >>,
                       << Abs(amount) * feePercent, 10000 >>,
                       << amount * brokeragePercent, 10000 >>,
                       << amount * feePercent, 10000 >>,
                       << 0 - amount * feePercent, 10000 >>,
                       << amount, 1 >>,
                       << reward.NetValueINR, 1 >>,
                       << amount, 100 >>,
                       << reward.NetValueINR, 1000 >> }
       IN  /\ HalfAwayFromZero(reward.BrokerageFee, Abs(amount) * brokeragePercent, 10000)
           /\ HalfAwayFromZero(reward.TransactionFee, Abs(amount) * feePercent, 10000)
           /\ roundToTwoDecimals(reward.BrokerageFee, 1) = reward.BrokerageFee
           /\ roundToTwoDecimals(reward.TransactionFee, 1) = reward.TransactionFee
           /\ \A x \in inputs :
                 /\ HalfAwayFromZero(roundToTwoDecimals(x[1], x[2]), x[1], x[2])
                 /\ roundToTwoDecimals(roundToTwoDecimals(x[1], x[2]), 1)
                       = roundToTwoDecimals(x[1], x[2])

\* a transaction fee of exactly half a paisa, charged as one paisa
C13_Witness ==
    /\ calc.reward # << >>
    /\ Abs(calc.reward[1].TotalValueINR) * feePercent * 2 = 10 * 10000
    /\ calc.reward[1].TransactionFee = 10

(***************************************************************************)
(* C14.  A call whose user id, stock symbol or event id is empty, or whose *)
(* quantity is zero, returns the validation error in its first step, and   *)
(* that step reads and writes no table: no lookup, reserve, price call or  *)
(* write happens for it, and no stored record comes from such a request.   *)
(***************************************************************************)
Invalid(r) ==
    r.UserID = "" \/ r.StockSymbol = "" \/ r.EventID = "" \/ r.Quantity = 0

C14_InvalidNeverEnters ==
    /\ \A p \in Procs :
          (pc[p] # "idle" /\ Invalid(req[p]))
          => /\ Returned(p)
             /\ result[p] = Fail("validation failed")
             /\ stockPrice[p] = 0
             /\ createdReward[p] = << >>
    /\ \A row \in Rows(reward_requests) : ~Invalid(row.request_payload)
    /\ \A row \in Rows(rewards) : row.quantity # 0 /\ row.event_id # ""

C14_ValidateStep ==
    \A p \in Procs :
       (pc[p] = "idle" /\ pc'[p] # "idle" /\ Invalid(req'[p]))
       => /\ pc'[p] = "done"
          /\ result'[p] = Fail("validation failed")
          /\ tables' = tables
          /\ faults' = faults

C14_ValidationFirst == []C14_InvalidNeverEnters /\ [][C14_ValidateStep]_vars

\* a call without user id was turned away while another call was processed
C14_Witness ==
    \E p, q \in Procs :
       /\ Returned(p)
       /\ req[p].UserID = ""
       /\ result[p].err = "validation failed"
       /\ Fresh(q)
       /\ Len(reward_requests) = 1

(***************************************************************************)
(* C15.  When a call has reserved its event identifier and then failed at  *)
(* the price lookup or at storing the reward, the idempotency record of    *)
(* the event is PROCESSING without response and no step ever changes it;   *)
(* every other call for the identifier fails, and a call for it whose      *)
(* lookup reads the record fails with Conflict without writing anything.   *)
(***************************************************************************)
StuckErrs == {"failed to get stock price", "failed to create reward"}

Stuck(p) == Returned(p) /\ result[p].err \in StuckErrs

C15_StuckRecord ==
    \A p \in Procs :
       Stuck(p)
       => /\ Len(RequestRows(req[p].EventID)) = 1
          /\ RequestRows(req[p].EventID)[1].status = "PROCESSING"
          /\ RequestRows(req[p].EventID)[1].response_payload = << >>
          /\ RequestRows(req[p].EventID)[1].processed_at = << >>
          /\ \A q \in Procs \ {p} :
                (Returned(q) /\ req[q].EventID = req[p].EventID)
                => \/ result[q].err \in ConflictErrs
                   \/ result[q].err = "validation failed" /\ Invalid(req[q])
                   \/ result[q].err = "failed to check user existence"
                   \/ result[q].err = "user does not exist" /\ ~Exists(req[q].UserID)

C15_StuckStep ==
    \A p \in Procs :
       Stuck(p)
       => /\ RequestRows(req[p].EventID)' = RequestRows(req[p].EventID)
          /\ \A q \in Procs \ {p} :
                (/\ req[q].EventID = req[p].EventID
                 /\ pc[q] = "lookup" /\ pc'[q] # "lookup"
                 /\ faults' = faults)
                => /\ pc'[q] = "done"
                   /\ result'[q] = Fail("request already processing or failed")
                   /\ tables' = tables

C15_StuckForever == []C15_StuckRecord /\ [][C15_StuckStep]_vars

\* the same request, sent again after its price could not be saved, met the
\* record the failed call left behind
C15_Witness ==
    \E p, q \in Procs :
       /\ p # q
       /\ Returned(p)
       /\ result[p].err = "failed to get stock price"
       /\ req[q] = req[p]
       /\ Returned(q)
       /\ result[q].err = "request already processing or failed"
       /\ rewards = << >>

(***************************************************************************)
(* C16 as stated.  After a call for an event identifier has failed because *)
(* no price could be supplied, the same request sent again is processed:   *)
(* its lookup, answered by the storage, does not turn it away, and once it *)
(* has returned without a storage fault of its own it has a response and   *)
(* the Reward of the event is stored.                                      *)
(***************************************************************************)
PriceUnavailable(p) == Returned(p) /\ result[p].err = "failed to get stock price"

C16_RetryStep ==
    \A p, q \in Procs :
       (/\ p # q
        /\ PriceUnavailable(p)
        /\ req[q] = req[p]
        /\ pc[q] = "lookup" /\ pc'[q] = "done"
        /\ faults' = faults)
       => /\ result'[q].err = ""
          /\ RewardRows(req[q].EventID)' # << >>

C16_RetryAfterPriceUnavailable == [][C16_RetryStep]_vars

(***************************************************************************)
(* C17.  Every idempotency record goes absent -> PROCESSING -> COMPLETED:  *)
(* a record appears only as PROCESSING without response or processed       *)
(* timestamp, no record disappears, a PROCESSING record stays as it is     *)
(* until the one change to COMPLETED, which stores the response and the    *)
(* processed timestamp, a COMPLETED record keeps its status, and           *)
(* MarkProcessed for an event identifier without record creates none.      *)
(***************************************************************************)
C17_RecordStates ==
    \A row \in Rows(reward_requests) :
       \/ /\ row.status = "PROCESSING"
          /\ row.response_payload = << >>
          /\ row.processed_at = << >>
       \/ /\ row.status = "COMPLETED"
          /\ row.response_payload # << >>
          /\ row.processed_at # << >>

C17_LifecycleStep ==
    /\ Len(reward_requests') >= Len(reward_requests)
    /\ \A i \in DOMAIN reward_requests :
          LET old == reward_requests[i]
              new == reward_requests'[i]
          IN  /\ new.id = old.id /\ new.event_id = old.event_id
              /\ old.status = "COMPLETED" => new.status = "COMPLETED"
              /\ new.status = "PROCESSING" => new = old
              /\ new.status # old.status
                    => /\ old.status = "PROCESSING" /\ new.status = "COMPLETED"
                       /\ new.response_payload # << >>
                       /\ new.processed_at # << >>
    /\ \A i \in DOMAIN reward_requests' \ DOMAIN reward_requests :
          /\ reward_requests'[i].status = "PROCESSING"
          /\ reward_requests'[i].response_payload = << >>
          /\ reward_requests'[i].processed_at = << >>
    /\ \A e \in EventIDs \cup {"EVT-404"} :
          RequestRows(e) = << >> => MarkProcessed(e, "response", now) = reward_requests

C17_Lifecycle == []C17_RecordStates /\ [][C17_LifecycleStep]_vars

\* one record has been completed while the record of another event is still
\* PROCESSING
C17_Witness ==
    \E i, j \in DOMAIN reward_requests :
       /\ reward_requests[i].status = "COMPLETED"
       /\ reward_requests[i].processed_at # << >>
       /\ reward_requests[j].status = "PROCESSING"

(***************************************************************************)
(* C18 as stated.  The total value, brokerage fee, transaction fee and net *)
(* value of a processed reward are whole multiples of 0.01, in the stored  *)
(* Reward and in the response returned to the caller.                      *)
(***************************************************************************)
WholePaise(x) == x % 10 = 0

C18_AllRounded ==
    /\ \A row \in Rows(rewards) :
          /\ WholePaise(row.total_value_inr)
          /\ WholePaise(row.brokerage_fee)
          /\ WholePaise(row.transaction_fee)
          /\ WholePaise(row.net_value_inr)
    /\ \A p \in Procs :
          (Returned(p) /\ result[p].err = "")
          => /\ WholePaise(result[p].response[1].TotalValueINR)
             /\ WholePaise(result[p].response[1].BrokerageFee)
             /\ WholePaise(result[p].response[1].TransactionFee)
             /\ WholePaise(result[p].response[1].NetValueINR)

(***************************************************************************)
(* C19.  For a Reward with positive quantity the ledger entries generated  *)
(* and stored are, in this order: DEBIT STOCK_ASSET and CREDIT             *)
(* REWARD_INCOME for the gross value; then, only when the brokerage fee is *)
(* above zero, DEBIT BROKERAGE_EXPENSE and CREDIT CASH for that fee; then, *)
(* only when the transaction fee is above zero, DEBIT FEE_EXPENSE and      *)
(* CREDIT CASH for that fee; and nothing else.                             *)
(***************************************************************************)
EntryShape(entries) ==
    [i \in DOMAIN entries |->
        << entries[i].EntryType, entries[i].AccountType, entries[i].Amount >>]

RowShape(rows) ==
    [i \in DOMAIN rows |->
        << rows[i].entry_type, rows[i].account_type, rows[i].amount >>]

PositiveShape(gross, brokerage, fee) ==
    << << "DEBIT", "STOCK_ASSET", gross >>, << "CREDIT", "REWARD_INCOME", gross >> >>
    \o (IF brokerage > 0
        THEN << << "DEBIT", "BROKERAGE_EXPENSE", brokerage >>,
                << "CREDIT", "CASH", brokerage >> >>
        ELSE << >>)
    \o (IF fee > 0
        THEN << << "DEBIT", "FEE_EXPENSE", fee >>, << "CREDIT", "CASH", fee >> >>
        ELSE << >>)

C19_PositiveEntries ==
    (calc.phase = "ledgered" /\ calc.req.Quantity > 0)
    => LET reward == calc.reward[1]
           row == rewards[Len(rewards)]
       IN  /\ EntryShape(createLedgerEntries(reward)) =
                 PositiveShape(reward.TotalValueINR, reward.BrokerageFee,
                               reward.TransactionFee)
           /\ RowShape(ledger_entries) =
                 PositiveShape(row.total_value_inr, row.brokerage_fee,
                               row.transaction_fee)
           /\ \A l \in Rows(ledger_entries) :
                 /\ l.reward_id = reward.ID
                 /\ l.user_id = reward.UserID
                 /\ l.reference_id = reward.EventID

\* a grant on which the brokerage fee is charged and the transaction fee is
\* not: four rows
C19_Witness ==
    /\ calc.phase = "ledgered"
    /\ calc.req.Quantity > 0
    /\ calc.reward[1].BrokerageFee > 0
    /\ calc.reward[1].TransactionFee = 0
    /\ Len(ledger_entries) = 4

(***************************************************************************)
(* C20.  For a Reward with negative quantity the ledger entries generated  *)
(* and stored are exactly two, CREDIT STOCK_ASSET and DEBIT                *)
(* ADJUSTMENT_EXPENSE, both for the absolute gross value, so with          *)
(* non-negative amounts, and no entry is made for the brokerage or the     *)
(* transaction fee even when they are above zero; quantity -5 at price     *)
(* 100.00 gives CREDIT 500.00 and DEBIT 500.00.                            *)
(***************************************************************************)
NegativeShape(gross) ==
    << << "CREDIT", "STOCK_ASSET", Abs(gross) >>,
       << "DEBIT", "ADJUSTMENT_EXPENSE", Abs(gross) >> >>

C20_NegativeEntries ==
    (calc.phase = "ledgered" /\ calc.req.Quantity < 0)
    => LET reward == calc.reward[1]
           row == rewards[Len(rewards)]
       IN  /\ EntryShape(createLedgerEntries(reward)) = NegativeShape(reward.TotalValueINR)
           /\ RowShape(ledger_entries) = NegativeShape(row.total_value_inr)
           /\ \A l \in Rows(ledger_entries) :
                 /\ l.amount >= 0
                 /\ l.reward_id = reward.ID
                 /\ l.account_type \notin {"BROKERAGE_EXPENSE", "FEE_EXPENSE", "CASH"}
           /\ (calc.req.Quantity = 0 - 50 /\ calc.price = 10000)
                 => RowShape(ledger_entries) =
                       << << "CREDIT", "STOCK_ASSET", 500000 >>,
                          << "DEBIT", "ADJUSTMENT_EXPENSE", 500000 >> >>

\* the documented adjustment, on which both fees are above zero and neither
\* is in the ledger
C20_Witness ==
    /\ calc.phase = "ledgered"
    /\ calc.req.Quantity = 0 - 50
    /\ calc.price = 10000
    /\ calc.reward[1].BrokerageFee = 500
    /\ calc.reward[1].TransactionFee = 250
    /\ Len(ledger_entries) = 2

(***************************************************************************)
(* C21.  The steps of a call up to and including the user check write      *)
(* nothing: a call that fails validation, or is turned away by the lookup, *)
(* or names an unknown user, leaves every table and sequence as it was, no *)
(* price was fetched or Reward built for it, and no stored record or       *)
(* Reward ever names an unknown user.                                      *)
(***************************************************************************)
EarlyErrs == {"validation failed", "request already processing or failed",
              "user does not exist"}

C21_NoTraceOfEarlyFailure ==
    /\ \A p \in Procs :
          (Returned(p) /\ result[p].err \in EarlyErrs)
          => /\ stockPrice[p] = 0
             /\ createdReward[p] = << >>
    /\ \A row \in Rows(reward_requests) : Exists(row.user_id)
    /\ \A row \in Rows(rewards) : Exists(row.user_id)
    /\ \A row \in Rows(ledger_entries) : Exists(row.user_id)

C21_EarlyStep ==
    \A p \in Procs :
       (pc[p] \in {"idle", "lookup", "user"} /\ pc'[p] # pc[p])
       => /\ tables' = tables
          /\ stockPrice'[p] = 0
          /\ createdReward'[p] = << >>
          /\ pc'[p] = "done" => result'[p].err \in
                EarlyErrs \cup {"failed to check user existence", ""}

C21_EarlyFailuresWriteNothing ==
    []C21_NoTraceOfEarlyFailure /\ [][C21_EarlyStep]_vars

\* a call for an unknown user has returned and its event identifier is
\* still free
C21_Witness ==
    \E p \in Procs :
       /\ Returned(p)
       /\ result[p].err = "user does not exist"
       /\ RequestRows(req[p].EventID) = << >>
       /\ reward_requests # << >>

(***************************************************************************)
(* C22.  Within every invocation the steps come in the order lookup,       *)
(* reserve, price, reward, ledger, complete: a record is inserted only by  *)
(* an invocation at its reserve step; the price is asked for and a Reward  *)
(* is stored only by an invocation whose own record is stored; ledger rows *)
(* are stored only for the Reward their invocation has stored; and a       *)
(* record is completed only when the Reward of its event is stored.        *)
(***************************************************************************)
OwnRecord(p) ==
    /\ Len(RequestRows(req[p].EventID)) = 1
    /\ RequestRows(req[p].EventID)[1].request_payload = req[p]

OwnReward(p) ==
    /\ createdReward[p] # << >>
    /\ \E row \in Rows(rewards) :
          /\ row.id = createdReward[p][1].ID
          /\ row.event_id = req[p].EventID

C22_Positions ==
    \A p \in Procs :
       /\ pc[p] \in {"price", "reward", "ledger", "mark"} => OwnRecord(p)
       /\ pc[p] \in {"reward", "ledger", "mark"} => stockPrice[p] > 0
       /\ pc[p] \in {"ledger", "mark"} => OwnReward(p)
       /\ pc[p] \in {"idle", "lookup", "user", "reserve", "price", "reward"}
             => createdReward[p] = << >>
       /\ pc[p] \in {"idle", "lookup", "user", "reserve", "price"} => stockPrice[p] = 0

C22_OrderStep ==
    /\ reward_requests' # reward_requests
          => \E p \in Procs :
                \/ /\ pc[p] = "reserve" /\ pc'[p] = "price"
                   /\ Len(reward_requests') = Len(reward_requests) + 1
                \/ /\ pc[p] = "mark" /\ pc'[p] = "done"
                   /\ Len(reward_requests') = Len(reward_requests)
                   /\ RewardRows(req[p].EventID) # << >>
    /\ \A p \in Procs : stockPrice'[p] # stockPrice[p]
          => pc[p] = "price" /\ pc'[p] = "reward" /\ OwnRecord(p)
    /\ rewards' # rewards
          => \E p \in Procs :
                /\ pc[p] = "reward" /\ pc'[p] = "ledger"
                /\ OwnRecord(p)
                /\ Len(rewards') = Len(rewards) + 1
                /\ rewards'[Len(rewards')].event_id = req[p].EventID
    /\ ledger_entries' # ledger_entries
          => \E p \in Procs :
                /\ pc[p] = "ledger" /\ pc'[p] = "mark"
                /\ OwnReward(p)
                /\ \A i \in DOMAIN ledger_entries' \ DOMAIN ledger_entries :
                      ledger_entries'[i].reward_id = createdReward[p][1].ID

C22_StepOrder == []C22_Positions /\ [][C22_OrderStep]_vars

\* one invocation is about to complete, with its Reward and ledger rows
\* stored, while another has just reserved
C22_Witness ==
    \E p, q \in Procs :
       /\ pc[p] = "mark"
       /\ LedgerRows(createdReward[p][1].ID) # << >>
       /\ pc[q] = "price"
       /\ rewards # << >>

(***************************************************************************)
(* C23: complete is idempotent on a record that is already COMPLETED: a    *)
(* redundant call of MarkProcessed leaves the status, the cached response  *)
(* and the processed timestamp of the record as the first complete left    *)
(* them.                                                                   *)
(***************************************************************************)
C23_CompletedKept ==
    \A i \in DOMAIN reward_requests :
       reward_requests[i].status = "COMPLETED"
          => /\ i \in DOMAIN reward_requests'
             /\ reward_requests'[i].status = "COMPLETED"
             /\ reward_requests'[i].response_payload = reward_requests[i].response_payload
             /\ reward_requests'[i].processed_at = reward_requests[i].processed_at

C23_CompleteIdempotent == [][C23_CompletedKept]_vars

(***************************************************************************)
(* C24: a Reward with quantity zero never reaches rewardRepo.Create or     *)
(* createLedgerEntries: a request with quantity zero returns from          *)
(* validation, no invocation past validation carries quantity zero, and no *)
(* stored Reward and no ledger row has quantity zero.                      *)
(***************************************************************************)
C24_ZeroNeverStored ==
    /\ \A p \in Procs :
          /\ (pc[p] # "idle" /\ req[p].Quantity = 0)
                => /\ pc[p] = "done"
                   /\ result[p].err = "validation failed"
                   /\ createdReward[p] = << >>
          /\ createdReward[p] # << >> => createdReward[p][1].Quantity # 0
    /\ \A row \in Rows(rewards) : row.quantity # 0
    /\ \A l \in Rows(ledger_entries) :
          \E row \in Rows(rewards) : row.id = l.reward_id /\ row.quantity # 0

\* a request with quantity zero has been turned away while the tables hold
\* the Reward and the ledger rows of another event
C24_Witness ==
    \E p \in Procs :
       /\ Returned(p)
       /\ req[p].Quantity = 0
       /\ result[p].err = "validation failed"
       /\ rewards # << >>
       /\ ledger_entries # << >>

(***************************************************************************)
(* C25: rewardRepository.Update changes only the status and the notes of a *)
(* stored Reward: on every step the quantity, event id, stock price, total *)
(* value, brokerage fee, transaction fee and net value of every stored     *)
(* Reward are what they were, whatever the struct handed to Update holds.  *)
(***************************************************************************)
C25_FinancialFieldsKept ==
    \A i \in DOMAIN rewards :
       /\ i \in DOMAIN rewards'
       /\ rewards'[i].id = rewards[i].id
       /\ rewards'[i].quantity = rewards[i].quantity
       /\ rewards'[i].event_id = rewards[i].event_id
       /\ rewards'[i].stock_price = rewards[i].stock_price
       /\ rewards'[i].total_value_inr = rewards[i].total_value_inr
       /\ rewards'[i].brokerage_fee = rewards[i].brokerage_fee
       /\ rewards'[i].transaction_fee = rewards[i].transaction_fee
       /\ rewards'[i].net_value_inr = rewards[i].net_value_inr

C25_UpdateFrame == [][C25_FinancialFieldsKept]_vars

\* a stored Reward has been corrected: status and notes carry the values of
\* the update, the net value is still the one computed at creation
C25_Witness ==
    \E row \in Rows(rewards) :
       /\ row.status = "CANCELLED"
       /\ row.notes = << "corrected" >>
       /\ row.quantity = 105
       /\ row.net_value_inr =
             Decimal15_2(BuildReward(Request("USR001", "AAPL", 105, "EVT-001"),
                                     row.stock_price, 0).NetValueINR)

(***************************************************************************)
(* C26: the idempotency record exists before the Reward does: an           *)
(* invocation about to store its Reward already has its own record stored, *)
(* and every stored Reward with event identifier e has exactly one record  *)
(* for e, holding the request of the invocation that stored the Reward.    *)
(***************************************************************************)
C26_RecordBeforeReward ==
    /\ \A p \in Procs : pc[p] = "reward" => OwnRecord(p)
    /\ \A row \in Rows(rewards) :
          /\ Len(RequestRows(row.event_id)) = 1
          /\ LET rec == RequestRows(row.event_id)[1] IN
                /\ rec.request_payload.UserID = row.user_id
                /\ rec.request_payload.StockSymbol = row.stock_symbol
                /\ rec.request_payload.Quantity = row.quantity
                /\ \E p \in Procs :
                      /\ req[p] = rec.request_payload
                      /\ createdReward[p] # << >>
                      /\ createdReward[p][1].ID = row.id

\* a Reward has just been stored and its record, reserved at step 4, is
\* still PROCESSING
C26_Witness ==
    \E p \in Procs :
       /\ pc[p] = "ledger"
       /\ OwnReward(p)
       /\ RequestRows(req[p].EventID)[1].status = "PROCESSING"

(***************************************************************************)
(* C27: when the idempotency record of event identifier e is COMPLETED,    *)
(* exactly one Reward with event identifier e is stored, and the reward    *)
(* id, quantity, price, total value, fees and net value of the cached      *)
(* response are those of that Reward.                                      *)
(***************************************************************************)
C27_CachedResponseIsReward ==
    \A e \in EventIDs :
       Completed(e)
          => /\ Len(RewardRows(e)) = 1
             /\ LET cached == RequestRows(e)[1].response_payload[1]
                    row == RewardRows(e)[1]
                IN /\ cached.reward_id = row.id
                   /\ cached.quantity = row.quantity
                   /\ cached.stock_price = row.stock_price
                   /\ cached.total_value_inr = row.total_value_inr
                   /\ cached.brokerage_fee = row.brokerage_fee
                   /\ cached.transaction_fee = row.transaction_fee
                   /\ cached.net_value_inr = row.net_value_inr

(***************************************************************************)
(* C28: when no collaborator fails and every invocation keeps being        *)
(* scheduled, every call returns, and a valid call of a known user for an  *)
(* event identifier that no other invocation has reserved returns the      *)
(* response it built, with the record COMPLETED, one Reward stored and the *)
(* ledger entries of that Reward stored.                                   *)
(***************************************************************************)
C28_Success(p) ==
    /\ Fresh(p)
    /\ Completed(req[p].EventID)
    /\ Len(RewardRows(req[p].EventID)) = 1
    /\ LedgerRows(RewardRows(req[p].EventID)[1].id)
          = LedgerRowsOf(createLedgerEntries(createdReward[p][1]))
    /\ LedgerRows(RewardRows(req[p].EventID)[1].id) # << >>

\* no other invocation holds or held the reservation of p's event identifier
C28_NoCompetitor(p) ==
    \A q \in Procs \ {p} : req[q].EventID = req[p].EventID => ~Reserved(q)

C28_ReturnsSuccess ==
    \A p \in Procs :
       (Returned(p) /\ Valid(p) /\ Exists(req[p].UserID) /\ C28_NoCompetitor(p))
          => C28_Success(p)

C28_AllReturned == \A p \in Procs : pc[p] \in {"idle", "done"}

C28_EventuallyProcessed == []C28_ReturnsSuccess /\ []<>C28_AllReturned

\* the call has returned its response with everything stored, while another
\* call for the same event identifier was turned away at the lookup
C28_Witness ==
    \E p, q \in Procs :
       /\ faults = MaxFaults
       /\ C28_Success(p)
       /\ q # p
       /\ req[q].EventID = req[p].EventID
       /\ Valid(q)
       /\ Returned(q)
       /\ ~Reserved(q)

(***************************************************************************)
(* C29: the lookup keys on the event identifier alone: a valid call whose  *)
(* event identifier has a COMPLETED record made for another user,          *)
(* instrument or quantity returns the cached response, which names the     *)
(* user, instrument and quantity of the recorded request, and writes       *)
(* nothing.                                                                *)
(***************************************************************************)
C29_ReuseStep ==
    \A p \in Procs :
       (/\ pc[p] = "lookup" /\ pc'[p] # "lookup"
        /\ faults' = faults
        /\ Completed(req[p].EventID)
        /\ RequestRows(req[p].EventID)[1].request_payload # req[p])
       => LET original == RequestRows(req[p].EventID)[1].request_payload IN
          /\ Duplicate(p)'
          /\ result'[p].response[1].EventID = req[p].EventID
          /\ result'[p].response[1].UserID = original.UserID
          /\ result'[p].response[1].StockSymbol = original.StockSymbol
          /\ result'[p].response[1].Quantity = original.Quantity
          /\ tables' = tables
          /\ \A row \in Rows(rewards') :
                row.event_id = req[p].EventID => row.user_id = original.UserID

C29_KeyedOnEventAlone == [][C29_ReuseStep]_vars

\* a call for another user, instrument and quantity got the response of the
\* recorded request back
C29_Witness ==
    \E p \in Procs :
       /\ Duplicate(p)
       /\ result[p].response[1].UserID # req[p].UserID
       /\ result[p].response[1].StockSymbol # req[p].StockSymbol
       /\ result[p].response[1].Quantity # req[p].Quantity

(***************************************************************************)
(* C30: db.WithTransaction commits exactly when fn returns nil without     *)
(* panicking and rolls back otherwise, and it returns nil only if the      *)
(* transaction was committed: a failure of Commit reaches the caller as an *)
(* error.                                                                  *)
(***************************************************************************)
C30_CommitOnlyAfterNil ==
    (tx.pc \in {"returned", "panicked"} /\ tx.fn # "none")
       => /\ tx.outcome \in {"committed", "commit failed"} <=> tx.fn = "nil"
          /\ tx.outcome = "rolled back" <=> tx.fn \in {"error", "panic"}

C30_NilOnlyIfCommitted ==
    (tx.pc = "returned" /\ tx.ret = "") => tx.outcome = "committed"

C30_WithTransaction == C30_CommitOnlyAfterNil /\ C30_NilOnlyIfCommitted

====
